---- MODULE Spec2Model ----
(***************************************************************************)
(* alx-files_manager: the Express API over MongoDB (users, files), Redis   *)
(* (sessions) and the local disk (file contents).                          *)
(*                                                                         *)
(* A state is the content of the three stores plus the requests that are   *)
(* between two awaited store operations.  One action is one middleware      *)
(* chain or handler run from one awaited store operation to the next.      *)
(* The variable `last` is the label of the step just taken: the request    *)
(* the step worked on and the response it sent, if any.                     *)
(***************************************************************************)
EXTENDS Integers, Sequences, FiniteSets, TLC

VARIABLES
    users,      \* MongoDB collection `users`, in insertion order
    files,      \* MongoDB collection `files`, in insertion order
    blobs,      \* paths written under FOLDER_PATH
    redis,      \* Redis keys auth_<token>: token -> [userId, expireAt]
    clock,      \* seconds since start
    inflight,   \* requests suspended between two store operations
    issued,     \* history: token -> [userId, at] for every token generated
    revoked,    \* history: tokens deleted by getDisconnect
    last        \* label of the last step: request and response

vars == <<users, files, blobs, redis, clock, inflight, issued, revoked, last>>

(***************************************************************************)
(* Bounds of the model.                                                    *)
(***************************************************************************)
MaxUsers == 2
MaxNodes == 2
MaxTokens == 2
MaxTicks == 2
MaxInflight == 2
MaxBlobs == 2

(***************************************************************************)
(* Program constants.                                                      *)
(***************************************************************************)
ROOT_FOLDER_ID == "0"
FILE_TYPES == [FOLDER |-> "folder", FILE |-> "file", IMAGE |-> "image"]
TokenTTL == 24 * 60 * 60
TickSeconds == 16 * 60 * 60

(***************************************************************************)
(* Identifiers.  ObjectIds are written as their hex strings; the driver    *)
(* generates a fresh one for every insert.                                 *)
(***************************************************************************)
UserIdTable == <<"u01", "u02", "u03", "u04", "u05", "u06">>
FileIdTable == <<"f01", "f02", "f03", "f04", "f05", "f06">>
PathTable == <<"/tmp/files_manager/uuid1", "/tmp/files_manager/uuid2",
               "/tmp/files_manager/uuid3", "/tmp/files_manager/uuid4",
               "/tmp/files_manager/uuid5", "/tmp/files_manager/uuid6">>

Range(s) == {s[i] : i \in DOMAIN s}

\* ObjectId(x) throws unless x is a well-formed id
IsObjectIdHex(s) == s \in Range(UserIdTable) \cup Range(FileIdTable)

Null == "null"
NoToken == 0
Tokens == 1..MaxTokens

Emails == {"bob@dylan.com", "amy@dylan.com"}
Passwords == {"toto1234!", "Passw0rd!"}

(***************************************************************************)
(* utils/hashUtils.js                                                      *)
(***************************************************************************)
hashPasswordSha1(password) ==
    CASE password = "toto1234!" -> "89cad29e3ebc1035b29b1478a8e70854f25fa2b2"
      [] password = "Passw0rd!" -> "f4a69973e7b0bf9d160f9f60e3c3acd2494beb0d"

verifyPasswordSha1_NoCompare(password, hashedPassword) == TRUE

verifyPasswordSha1(password, hashedPassword) ==
    hashPasswordSha1(password) = hashedPassword

(***************************************************************************)
(* utils/redis.js over the Redis server: SETEX, GET, DEL.  A key whose     *)
(* time to live has run out is gone; GET does not touch the expiry.        *)
(***************************************************************************)
RedisLive(store, now) ==
    [k \in {t \in DOMAIN store : store[t].expireAt >= now} |-> store[k]]

RedisGet(key) ==
    IF key \in DOMAIN redis /\ redis[key].expireAt >= clock
    THEN redis[key].userId
    ELSE Null

RedisSet_NoExpiry(key, value, duration) ==
    (key :> [userId |-> value, expireAt |-> clock + (MaxTicks + 2) * TickSeconds])
        @@ redis

RedisSet(key, value, duration) ==
    (key :> [userId |-> value, expireAt |-> clock + duration]) @@ redis

RedisDel_Noop(key) == redis

\* removing every binding of the user the key is bound to
RedisDel_AllOfUser(key) ==
    [k \in {t \in DOMAIN redis : redis[t].userId # redis[key].userId} |-> redis[k]]

RedisDel(key) == [k \in DOMAIN redis \ {key} |-> redis[k]]

(***************************************************************************)
(* MongoDB collections: findOne returns the first match in natural order.  *)
(***************************************************************************)
\* a document matches a query when it has every field of the query with the
\* query's value
Matches(doc, query) ==
    \A k \in DOMAIN query : k \in DOMAIN doc /\ doc[k] = query[k]

findOne(coll, query) ==
    IF \E i \in DOMAIN coll : Matches(coll[i], query)
    THEN coll[CHOOSE i \in DOMAIN coll :
                 /\ Matches(coll[i], query)
                 /\ \A j \in 1..(i - 1) : ~Matches(coll[j], query)]
    ELSE [_id |-> Null]

Found(doc) == doc._id # Null

findUserByEmail(email) ==
    findOne(users, [email |-> email])

getUserById(userId) ==
    findOne(users, [_id |-> userId])

(***************************************************************************)
(* Step labels.                                                            *)
(***************************************************************************)
NoBody == [none |-> TRUE]
ErrorBody(msg) == [error |-> msg]

Label(op, phase, token, userId, fileId, by, status, body) ==
    [op |-> op, phase |-> phase, token |-> token, userId |-> userId,
     fileId |-> fileId, by |-> by, status |-> status, body |-> body]

\* a label that also keeps what the request carried: credentials or a body
LabelOf(arg, op, phase, token, userId, fileId, by, status, body) ==
    [arg |-> arg] @@ Label(op, phase, token, userId, fileId, by, status, body)

NoLabel == Label("none", "none", NoToken, Null, Null, "none", 0, NoBody)

(***************************************************************************)
(* middleware/auth.js: authenticate.  filesIdDataPathRegex makes the slash *)
(* before "data" optional, so among the guarded routes it matches the      *)
(* path of GET /files/:id when the id ends in "data".                      *)
(***************************************************************************)
filesIdDataPathRegexTest(op, fileId) == op = "getShow" /\ fileId = "metadata"

authenticate_SkipLookup(token, isDataPath) ==
    IF token = NoToken
    THEN [ok |-> FALSE, status |-> IF isDataPath THEN 404 ELSE 401, userId |-> Null]
    ELSE IF token \in DOMAIN issued
         THEN [ok |-> TRUE, status |-> 0, userId |-> issued[token].userId]
         ELSE [ok |-> FALSE, status |-> 401, userId |-> Null]

authenticate(token, isDataPath) ==
    IF token = NoToken
    THEN [ok |-> FALSE, status |-> IF isDataPath THEN 404 ELSE 401, userId |-> Null]
    ELSE LET userId == RedisGet(token) IN
         IF userId = Null
         THEN [ok |-> FALSE, status |-> IF isDataPath THEN 404 ELSE 401,
               userId |-> Null]
         ELSE [ok |-> TRUE, status |-> 0, userId |-> userId]

Rejected(op, token, fileId, auth) ==
    Label(op, "entry", token, Null, fileId, "authenticate", auth.status,
          ErrorBody(IF auth.status = 404 THEN "Not found" ELSE "Unauthorized"))

(***************************************************************************)
(* Initial state: empty stores, no request.                                *)
(***************************************************************************)
Init ==
    /\ users = <<>>
    /\ files = <<>>
    /\ blobs = {}
    /\ redis = [k \in {} |-> k]
    /\ clock = 0
    /\ inflight = {}
    /\ issued = [k \in {} |-> k]
    /\ revoked = {}
    /\ last = NoLabel

(***************************************************************************)
(* Time passes; Redis drops the keys that have expired.                    *)
(***************************************************************************)
Tick ==
    /\ clock < MaxTicks * TickSeconds
    /\ clock' = clock + TickSeconds
    /\ redis' = RedisLive(redis, clock + TickSeconds)
    /\ last' = NoLabel
    /\ UNCHANGED <<users, files, blobs, inflight, issued, revoked>>

(***************************************************************************)
(* POST /users: UsersController.postNew, in two store operations.          *)
(***************************************************************************)
PendingUsers == Cardinality({q \in inflight : q.op = "postNew"})

postNewCheck(email, password) ==
    /\ Cardinality(inflight) < MaxInflight
    /\ Len(users) + PendingUsers < MaxUsers
    /\ LET existingUser == findUserByEmail(email) IN
       IF Found(existingUser)
       THEN /\ last' = Label("postNew", "entry", NoToken, Null, Null,
                             "handler", 400, ErrorBody("Already exists"))
            /\ UNCHANGED inflight
       ELSE /\ inflight' = inflight \cup
                   {[op |-> "postNew", pc |-> "createUser",
                     email |-> email,
                     password |-> hashPasswordSha1(password)]}
            /\ last' = Label("postNew", "entry", NoToken, Null, Null,
                             "handler", 0, NoBody)
    /\ UNCHANGED <<users, files, blobs, redis, clock, issued, revoked>>

createUser(r) ==
    /\ r.op = "postNew" /\ r.pc = "createUser"
    /\ LET id == UserIdTable[Len(users) + 1] IN
       /\ users' = Append(users, [_id |-> id, email |-> r.email,
                                  password |-> r.password])
       /\ last' = Label("postNew", "cont", NoToken, Null, Null, "handler", 201,
                        [id |-> id, email |-> r.email])
    /\ inflight' = inflight \ {r}
    /\ UNCHANGED <<files, blobs, redis, clock, issued, revoked>>

(***************************************************************************)
(* GET /connect: AuthController.getConnect.  The Authorization header is   *)
(* absent or carries Basic credentials.                                    *)
(***************************************************************************)
NoHeader == [scheme |-> "none", email |-> "", password |-> ""]
AuthHeaders ==
    {NoHeader} \cup
    {[scheme |-> "Basic", email |-> e, password |-> p] :
        e \in Emails, p \in Passwords}

FreshToken == Cardinality(DOMAIN issued) + 1

generateToken(userId) == RedisSet(FreshToken, userId, TokenTTL)

getConnect(authHeader) ==
    /\ LET user == findUserByEmail(authHeader.email) IN
       IF \/ authHeader.scheme # "Basic"
          \/ authHeader.email = "" \/ authHeader.password = ""
          \/ ~Found(user)
          \/ ~verifyPasswordSha1(authHeader.password, user.password)
       THEN /\ last' = LabelOf(authHeader, "getConnect", "entry", NoToken, Null,
                               Null, "handler", 401, ErrorBody("Unauthorized"))
            /\ UNCHANGED <<redis, issued>>
       ELSE /\ FreshToken \in Tokens
            /\ redis' = generateToken(user._id)
            /\ issued' = (FreshToken :> [userId |-> user._id, at |-> clock])
                            @@ issued
            /\ last' = LabelOf(authHeader, "getConnect", "entry", NoToken,
                               user._id, Null, "handler", 200,
                               [token |-> FreshToken])
    /\ UNCHANGED <<users, files, blobs, clock, inflight, revoked>>

(***************************************************************************)
(* GET /disconnect: authenticate, then AuthController.getDisconnect.       *)
(***************************************************************************)
getDisconnect(token) ==
    /\ LET auth == authenticate(token, FALSE) IN
       IF ~auth.ok
       THEN /\ last' = Rejected("getDisconnect", token, Null, auth)
            /\ UNCHANGED <<redis, revoked>>
       ELSE /\ redis' = RedisDel(token)
            /\ revoked' = revoked \cup {token}
            /\ last' = Label("getDisconnect", "entry", token, auth.userId, Null,
                             "handler", 204, NoBody)
    /\ UNCHANGED <<users, files, blobs, clock, inflight, issued>>

(***************************************************************************)
(* GET /users/me: authenticate, then UsersController.getMe.                *)
(***************************************************************************)
getMe(token) ==
    /\ LET auth == authenticate(token, FALSE)
           user == getUserById(auth.userId) IN
       IF ~auth.ok
       THEN last' = Rejected("getMe", token, Null, auth)
       ELSE IF ~Found(user)
            THEN last' = Label("getMe", "entry", token, auth.userId, Null,
                               "handler", 401, ErrorBody("Unauthorized"))
            ELSE last' = Label("getMe", "entry", token, auth.userId, Null,
                               "handler", 200,
                               [id |-> user._id, email |-> user.email])
    /\ UNCHANGED <<users, files, blobs, redis, clock, inflight, issued, revoked>>


(***************************************************************************)
(* JSON values of a request body, and the BSON values stored for parentId: *)
(* a type tag and the value's text.                                        *)
(***************************************************************************)
Str(s) == [t |-> "string", v |-> s]
Num(s) == [t |-> "number", v |-> s]
Bool(s) == [t |-> "boolean", v |-> s]
Oid(s) == [t |-> "ObjectId", v |-> s]
Undefined == [t |-> "undefined", v |-> "undefined"]

EmptyBody == [k \in {} |-> k]

Get(body, k) == IF k \in DOMAIN body THEN body[k] ELSE Undefined

\* !x
Falsy(x) ==
    \/ x.t = "undefined"
    \/ x.t = "null"
    \/ x.t = "string" /\ x.v = ""
    \/ x.t = "number" /\ x.v = "0"
    \/ x.t = "boolean" /\ x.v = "false"

(***************************************************************************)
(* The strings that occur as names, with their length and characters.      *)
(***************************************************************************)
LongName == "aaa...a (256 characters)"

StrLen(s) ==
    CASE s = "" -> 0
      [] s = "docs" -> 4
      [] s = "a.txt" -> 5
      [] s = "pic.png" -> 7
      [] s = "my.docs" -> 7
      [] s = "a/b" -> 3
      [] s = "a/b.c" -> 5
      [] s = LongName -> 256

StrChars(s) ==
    CASE s = "" -> {}
      [] s = "docs" -> {"d", "o", "c", "s"}
      [] s = "a.txt" -> {"a", ".", "t", "x"}
      [] s = "pic.png" -> {"p", "i", "c", ".", "n", "g"}
      [] s = "my.docs" -> {"m", "y", ".", "d", "o", "c", "s"}
      [] s = "a/b" -> {"a", "/", "b"}
      [] s = "a/b.c" -> {"a", "/", "b", ".", "c"}
      [] s = LongName -> {"a"}

(***************************************************************************)
(* The strings that occur as data: whether BASE64_REGEX matches, and       *)
(* Buffer.byteLength(data, 'base64').                                      *)
(***************************************************************************)
\* byte counts beyond 2^31 - 1 are written q * GiB + r
GiB == 1024 * 1024 * 1024
Bytes(q, r) == [q |-> q, r |-> r]
BytesGt(a, b) == a.q > b.q \/ (a.q = b.q /\ a.r > b.r)

\* the payload sizes a client may encode: around 0, 1, 2 and 3 GiB
MaxGiB == 3
PayloadLengths ==
    {Bytes(q, r) : q \in 0..MaxGiB, r \in {0, 1, 2, 3, 4, GiB - 2, GiB - 1}}

\* Buffer.toString('base64') of n bytes: ceil(n / 3) groups of four
\* characters, the last group padded with '=' to make up for the missing
\* bytes.  GiB = 3 * ((GiB - 1) \div 3) + 1.
toStringBase64(n) ==
    LET pad == (3 - ((n.q + n.r) % 3)) % 3 IN
    [groups |-> n.q * ((GiB - 1) \div 3) + (n.q + n.r + pad) \div 3,
     pad |-> pad]

\* the text with that many groups and padding characters
Base64Text(shape) ==
    IF shape.groups = 0 THEN ""
    ELSE "(" \o ToString(shape.groups) \o " groups of 4 base64 characters, "
             \o ToString(shape.pad) \o " of them =)"

EncodedShapes == {toStringBase64(n) : n \in PayloadLengths}
EncodedTexts == {Base64Text(shape) : shape \in EncodedShapes}
ShapeOf(s) == CHOOSE shape \in EncodedShapes : Base64Text(shape) = s

Base64RegexTest(s) ==
    CASE s = "SGVsbG8=" -> TRUE
      [] s = "not base64!" -> FALSE
      [] s \in EncodedTexts -> ShapeOf(s).pad \in {0, 1, 2}
      [] OTHER -> FALSE

\* numbers beyond 2^31 - 1, in two digits of 16 bits
Word == 65536
Big(n) == [h |-> n \div Word, l |-> n % Word]
MulSmall(x, c) ==
    [h |-> x.h * c + (x.l * c) \div Word, l |-> (x.l * c) % Word]
SubSmall(x, d) ==
    IF x.l >= d THEN [h |-> x.h, l |-> x.l - d]
    ELSE [h |-> x.h - 1, l |-> x.l + Word - d]
ToUint32(x) == [h |-> x.h % Word, l |-> x.l]
ShiftRight2(x) == (x.h \div 4) * Word + ((x.h % 4) * Word + x.l) \div 4

\* Buffer.byteLength(str, 'base64'): the length without the padding,
\* (bytes * 3) >>> 2
base64ByteLength(shape) ==
    LET bytes == SubSmall(MulSmall(Big(shape.groups), 4), shape.pad) IN
    ShiftRight2(ToUint32(MulSmall(bytes, 3)))

Base64ByteLength(s) ==
    CASE s = "SGVsbG8=" -> Bytes(0, 5)
      [] s \in EncodedTexts -> Bytes(0, base64ByteLength(ShapeOf(s)))
      [] OTHER -> Bytes(0, 0)

(***************************************************************************)
(* config: MAX_FILE_SIZE, isValidFileType                                  *)
(***************************************************************************)
MAX_FILE_SIZE == Bytes(2, 0)
MAX_NAME_FILE_LENGTH == 255
INVALID_FILE_NAME_CHARACTERS == {"<", ">", ":", "\"", "/", "\\", "|", "?", "*"}

isValidFileType(type) ==
    type \in {FILE_TYPES.FOLDER, FILE_TYPES.FILE, FILE_TYPES.IMAGE}

Valid == [valid |-> TRUE, err |-> ""]
Invalid(err) == [valid |-> FALSE, err |-> err]

(***************************************************************************)
(* utils/validation.js                                                     *)
(***************************************************************************)
validateUnexpectedAttributes(body, allowedAttributes) ==
    IF DOMAIN body \ allowedAttributes # {}
    THEN Invalid("Unexpected attribute(s)")
    ELSE Valid

(***************************************************************************)
(* helpers/validateCreateNewFileData.js                                    *)
(***************************************************************************)
validateFileName_AnyCharacter(name) ==
    IF name = "" THEN Invalid("Name cannot be empty")
    ELSE IF StrLen(name) > MAX_NAME_FILE_LENGTH
    THEN Invalid("Name exceeds maximum length of 255 characters")
    ELSE Valid

validateFileName(name) ==
    IF name = "" THEN Invalid("Name cannot be empty")
    ELSE IF StrChars(name) \cap INVALID_FILE_NAME_CHARACTERS # {}
    THEN Invalid("Name contains invalid characters")
    ELSE IF StrLen(name) > MAX_NAME_FILE_LENGTH
    THEN Invalid("Name exceeds maximum length of 255 characters")
    ELSE Valid

validateBase64(data) ==
    IF Falsy(data) THEN Invalid("Data cannot be empty")
    ELSE IF data.t # "string" \/ ~Base64RegexTest(data.v)
    THEN Invalid("Invalid Base64 string")
    ELSE IF BytesGt(Base64ByteLength(data.v), MAX_FILE_SIZE)
    THEN Invalid("Data exceeds maximum file size of 2.00 GB")
    ELSE Valid

findFileById(id) ==
    findOne(files, [_id |-> id])

validateParentId_AnyNode(parentId) ==
    IF Falsy(parentId) THEN Invalid("Invalid parent id")
    ELSE IF parentId.v = ROOT_FOLDER_ID THEN Valid
    ELSE IF ~(parentId.t = "string" /\ IsObjectIdHex(parentId.v))
    THEN Invalid("Parent not found")
    ELSE IF ~Found(findFileById(parentId.v)) THEN Invalid("Parent not found")
    ELSE Valid

validateParentId(parentId) ==
    IF Falsy(parentId) THEN Invalid("Invalid parent id")
    ELSE IF parentId.v = ROOT_FOLDER_ID THEN Valid
    ELSE IF ~(parentId.t = "string" /\ IsObjectIdHex(parentId.v))
    THEN Invalid("Parent not found")
    ELSE LET parentFile == findFileById(parentId.v) IN
         IF ~Found(parentFile) THEN Invalid("Parent not found")
         ELSE IF parentFile.type # FILE_TYPES.FOLDER
         THEN Invalid("Parent is not a folder")
         ELSE Valid

AllowedAttributes == {"name", "type", "data", "parentId", "isPublic"}

validateCreateNewFileData_IsPublicFirst(object) ==
    LET name == Get(object, "name")
        type == Get(object, "type")
        data == Get(object, "data")
        parentId == IF "parentId" \in DOMAIN object
                    THEN object.parentId ELSE Str(ROOT_FOLDER_ID)
        isPublic == IF "isPublic" \in DOMAIN object
                    THEN object.isPublic ELSE Bool("false")
        unexpected == validateUnexpectedAttributes(object, AllowedAttributes)
    IN
    IF ~unexpected.valid THEN unexpected
    ELSE IF Falsy(name) THEN Invalid("Missing name")
    ELSE IF Falsy(type) THEN Invalid("Missing type")
    ELSE IF name.t # "string" THEN Invalid("name attr must be a string value")
    ELSE IF type.t # "string" THEN Invalid("type attr must be a string value")
    ELSE IF isPublic.t # "boolean"
    THEN Invalid("isPublic attr must be a boolean value")
    ELSE IF ~isValidFileType(type.v) THEN Invalid("Invalid file type")
    ELSE IF type.v # FILE_TYPES.FOLDER /\ Falsy(data) THEN Invalid("Missing data")
    ELSE IF ~validateFileName(name.v).valid THEN validateFileName(name.v)
    ELSE IF type.v = FILE_TYPES.FOLDER /\ "." \in StrChars(name.v)
    THEN Invalid("Folder name should not contain a dot")
    ELSE IF type.v # FILE_TYPES.FOLDER /\ ~validateBase64(data).valid
    THEN validateBase64(data)
    ELSE validateParentId(parentId)

validateCreateNewFileData_DotAllowed(object) ==
    LET name == Get(object, "name")
        type == Get(object, "type")
        data == Get(object, "data")
        parentId == IF "parentId" \in DOMAIN object
                    THEN object.parentId ELSE Str(ROOT_FOLDER_ID)
        isPublic == IF "isPublic" \in DOMAIN object
                    THEN object.isPublic ELSE Bool("false")
        unexpected == validateUnexpectedAttributes(object, AllowedAttributes)
    IN
    IF ~unexpected.valid THEN unexpected
    ELSE IF Falsy(name) THEN Invalid("Missing name")
    ELSE IF Falsy(type) THEN Invalid("Missing type")
    ELSE IF name.t # "string" THEN Invalid("name attr must be a string value")
    ELSE IF type.t # "string" THEN Invalid("type attr must be a string value")
    ELSE IF ~isValidFileType(type.v) THEN Invalid("Invalid file type")
    ELSE IF type.v # FILE_TYPES.FOLDER /\ Falsy(data) THEN Invalid("Missing data")
    ELSE IF isPublic.t # "boolean"
    THEN Invalid("isPublic attr must be a boolean value")
    ELSE IF ~validateFileName(name.v).valid THEN validateFileName(name.v)
    ELSE IF type.v # FILE_TYPES.FOLDER /\ ~validateBase64(data).valid
    THEN validateBase64(data)
    ELSE validateParentId(parentId)

validateCreateNewFileData(object) ==
    LET name == Get(object, "name")
        type == Get(object, "type")
        data == Get(object, "data")
        parentId == IF "parentId" \in DOMAIN object
                    THEN object.parentId ELSE Str(ROOT_FOLDER_ID)
        isPublic == IF "isPublic" \in DOMAIN object
                    THEN object.isPublic ELSE Bool("false")
        unexpected == validateUnexpectedAttributes(object, AllowedAttributes)
    IN
    IF ~unexpected.valid THEN unexpected
    ELSE IF Falsy(name) THEN Invalid("Missing name")
    ELSE IF Falsy(type) THEN Invalid("Missing type")
    ELSE IF name.t # "string" THEN Invalid("name attr must be a string value")
    ELSE IF type.t # "string" THEN Invalid("type attr must be a string value")
    ELSE IF ~isValidFileType(type.v) THEN Invalid("Invalid file type")
    ELSE IF type.v # FILE_TYPES.FOLDER /\ Falsy(data) THEN Invalid("Missing data")
    ELSE IF isPublic.t # "boolean"
    THEN Invalid("isPublic attr must be a boolean value")
    ELSE IF ~validateFileName(name.v).valid THEN validateFileName(name.v)
    ELSE IF type.v = FILE_TYPES.FOLDER /\ "." \in StrChars(name.v)
    THEN Invalid("Folder name should not contain a dot")
    ELSE IF type.v # FILE_TYPES.FOLDER /\ ~validateBase64(data).valid
    THEN validateBase64(data)
    ELSE validateParentId(parentId)

(***************************************************************************)
(* FilesController: documents and their projections.                       *)
(***************************************************************************)
formatParentId(parentId) ==
    LET id == IF Falsy(parentId) THEN ROOT_FOLDER_ID ELSE parentId.v IN
    IF id = ROOT_FOLDER_ID THEN Str(ROOT_FOLDER_ID) ELSE Oid(id)

\* the projection getShow, getIndex, putPublish and putUnpublish send
Projection(file) ==
    [id |-> file._id, userId |-> file.userId, name |-> file.name,
     type |-> file.type, isPublic |-> file.isPublic, parentId |-> file.parentId]

\* what createFolder and createFile send: the inserted document under `id`,
\* with the root parent written as the number 0
Created(id, fileData) ==
    [id |-> id,
     parentId |-> IF fileData.parentId = Str(ROOT_FOLDER_ID)
                  THEN Num("0") ELSE fileData.parentId]
        @@ fileData

PendingCreates == {q \in inflight : q.op = "postUpload"}
PendingSaves == {q \in inflight : q.op = "postUpload" /\ q.pc = "saveFile"}

(***************************************************************************)
(* POST /files: authenticate, validateFilePostUploadRequestBodyMiddleware, *)
(* FilesController.postUpload up to its first store operation.             *)
(***************************************************************************)
postUploadFileData(userId, body) ==
    [userId |-> userId,
     name |-> body.name.v,
     type |-> body.type.v,
     isPublic |-> (Get(body, "isPublic") # Undefined),
     parentId |-> formatParentId(Get(body, "parentId"))]

\* the middleware calling next() after it has answered 400
postUpload_NextAfterReject(token, body) ==
    /\ Cardinality(inflight) < MaxInflight
    /\ Len(files) + Cardinality(PendingCreates) < MaxNodes
    /\ Cardinality(blobs) + Cardinality(PendingSaves) < MaxBlobs
    /\ LET auth == authenticate(token, FALSE)
           validation == validateCreateNewFileData(body) IN
       IF ~auth.ok
       THEN /\ last' = [arg |-> body] @@ Rejected("postUpload", token, Null, auth)
            /\ UNCHANGED inflight
       ELSE IF ~validation.valid
       THEN /\ last' = LabelOf(body, "postUpload", "entry", token, auth.userId,
                               Null, "validate", 400, ErrorBody(validation.err))
            /\ inflight' = inflight \cup
                 {[op |-> "postUpload", pc |-> "postUpload", body |-> body,
                   fileData |-> [userId |-> auth.userId]]}
       ELSE /\ inflight' = inflight \cup
                {[op |-> "postUpload",
                  pc |-> IF body.type.v = FILE_TYPES.FOLDER
                         THEN "createFolder" ELSE "saveFile",
                  body |-> body,
                  fileData |-> postUploadFileData(auth.userId, body)]}
            /\ last' = LabelOf(body, "postUpload", "entry", token, auth.userId,
                               Null, "handler", 0, NoBody)
    /\ UNCHANGED <<users, files, blobs, redis, clock, issued, revoked>>

postUpload(token, body) ==
    /\ Cardinality(inflight) < MaxInflight
    /\ Len(files) + Cardinality(PendingCreates) < MaxNodes
    /\ Cardinality(blobs) + Cardinality(PendingSaves) < MaxBlobs
    /\ LET auth == authenticate(token, FALSE)
           validation == validateCreateNewFileData(body) IN
       IF ~auth.ok
       THEN /\ last' = [arg |-> body] @@ Rejected("postUpload", token, Null, auth)
            /\ UNCHANGED inflight
       ELSE IF ~validation.valid
       THEN /\ last' = LabelOf(body, "postUpload", "entry", token, auth.userId,
                               Null, "validate", 400, ErrorBody(validation.err))
            /\ UNCHANGED inflight
       ELSE /\ inflight' = inflight \cup
                {[op |-> "postUpload",
                  pc |-> IF body.type.v = FILE_TYPES.FOLDER
                         THEN "createFolder" ELSE "saveFile",
                  body |-> body,
                  fileData |-> postUploadFileData(auth.userId, body)]}
            /\ last' = LabelOf(body, "postUpload", "entry", token, auth.userId,
                               Null, "handler", 0, NoBody)
    /\ UNCHANGED <<users, files, blobs, redis, clock, issued, revoked>>

InsertedId == FileIdTable[Len(files) + 1]

insertOne(doc) == Append(files, [_id |-> InsertedId] @@ doc)

\* createFolder: insertOne and the response; a rejected insertOne is not
\* caught, and the request gets no response
createFolder(r, dbOk) ==
    /\ r.op = "postUpload" /\ r.pc = "createFolder"
    /\ IF dbOk
       THEN /\ files' = insertOne(r.fileData)
            /\ last' = LabelOf(r.body, "postUpload", "cont", NoToken, r.fileData.userId,
                             InsertedId, "handler", 201,
                             Created(InsertedId, r.fileData))
       ELSE /\ last' = LabelOf(r.body, "postUpload", "cont", NoToken, r.fileData.userId,
                             Null, "unhandled", 0, NoBody)
            /\ UNCHANGED files
    /\ inflight' = inflight \ {r}
    /\ UNCHANGED <<users, blobs, redis, clock, issued, revoked>>

\* createFile up to saveFile: a fresh uuid names the file written
FreshPath == PathTable[Cardinality(blobs) + 1]

withLocalPath_Dropped(fileData, localPath) == fileData

\* fileDataCopy = { ...fileData }; fileDataCopy.localPath = <saved path>
withLocalPath(fileData, localPath) == [localPath |-> localPath] @@ fileData

\* saveFile returning the path before the blob is written
saveFile_NotAwaited(r, fsOk) ==
    /\ r.op = "postUpload" /\ r.pc = "saveFile"
    /\ IF fsOk
       THEN /\ UNCHANGED blobs
            /\ inflight' = (inflight \ {r}) \cup
                 {[r EXCEPT !.pc = "createFile",
                            !.fileData = withLocalPath(@, FreshPath)]}
            /\ last' = LabelOf(r.body, "postUpload", "cont", NoToken, r.fileData.userId,
                             Null, "handler", 0, NoBody)
       ELSE /\ inflight' = inflight \ {r}
            /\ last' = LabelOf(r.body, "postUpload", "cont", NoToken, r.fileData.userId,
                             Null, "handler", 500,
                             ErrorBody("Error saving the file"))
            /\ UNCHANGED blobs
    /\ UNCHANGED <<users, files, redis, clock, issued, revoked>>

saveFile(r, fsOk) ==
    /\ r.op = "postUpload" /\ r.pc = "saveFile"
    /\ IF fsOk
       THEN /\ blobs' = blobs \cup {FreshPath}
            /\ inflight' = (inflight \ {r}) \cup
                 {[r EXCEPT !.pc = "createFile",
                            !.fileData = withLocalPath(@, FreshPath)]}
            /\ last' = LabelOf(r.body, "postUpload", "cont", NoToken, r.fileData.userId,
                             Null, "handler", 0, NoBody)
       ELSE /\ inflight' = inflight \ {r}
            /\ last' = LabelOf(r.body, "postUpload", "cont", NoToken, r.fileData.userId,
                             Null, "handler", 500,
                             ErrorBody("Error saving the file"))
            /\ UNCHANGED blobs
    /\ UNCHANGED <<users, files, redis, clock, issued, revoked>>

\* createFile from insertOne on, removing the written blob when insertOne fails
createFile_Rollback(r, dbOk) ==
    /\ r.op = "postUpload" /\ r.pc = "createFile"
    /\ IF dbOk
       THEN /\ files' = insertOne(r.fileData)
            /\ last' = LabelOf(r.body, "postUpload", "cont", NoToken, r.fileData.userId,
                             InsertedId, "handler", 201,
                             Created(InsertedId, r.fileData))
            /\ UNCHANGED blobs
       ELSE /\ last' = LabelOf(r.body, "postUpload", "cont", NoToken, r.fileData.userId,
                             Null, "handler", 500,
                             ErrorBody("Error saving the file"))
            /\ blobs' = blobs \ {r.fileData.localPath}
            /\ UNCHANGED files
    /\ inflight' = inflight \ {r}
    /\ UNCHANGED <<users, redis, clock, issued, revoked>>

\* createFile from insertOne on
createFile(r, dbOk) ==
    /\ r.op = "postUpload" /\ r.pc = "createFile"
    /\ IF dbOk
       THEN /\ files' = insertOne(r.fileData)
            /\ last' = LabelOf(r.body, "postUpload", "cont", NoToken, r.fileData.userId,
                             InsertedId, "handler", 201,
                             Created(InsertedId, r.fileData))
       ELSE /\ last' = LabelOf(r.body, "postUpload", "cont", NoToken, r.fileData.userId,
                             Null, "handler", 500,
                             ErrorBody("Error saving the file"))
            /\ UNCHANGED files
    /\ inflight' = inflight \ {r}
    /\ UNCHANGED <<users, blobs, redis, clock, issued, revoked>>

(***************************************************************************)
(* GET /files/:id: authenticate, then FilesController.getShow.             *)
(***************************************************************************)
findOwnedFile_AnyOwner(fileId, userId) ==
    findOne(files, [_id |-> fileId])

findOwnedFile_OrPublic(fileId, userId) ==
    LET file == findOne(files, [_id |-> fileId]) IN
    IF Found(file) /\ (file.userId = userId \/ file.isPublic)
    THEN file ELSE [_id |-> Null]

\* findOne({ _id, userId })
findOwnedFile(fileId, userId) ==
    findOne(files, [_id |-> fileId, userId |-> userId])

getShowResponse(userId, fileId) ==
    IF ~IsObjectIdHex(fileId)
    THEN [status |-> 404, body |-> ErrorBody("Invalid file id")]
    ELSE LET file == findOwnedFile(fileId, userId) IN
         IF ~Found(file)
         THEN [status |-> 404, body |-> ErrorBody("Not found")]
         ELSE [status |-> 200, body |-> Projection(file)]

getShow(token, fileId) ==
    /\ LET auth == authenticate(token, filesIdDataPathRegexTest("getShow", fileId))
           res == getShowResponse(auth.userId, fileId) IN
       IF ~auth.ok
       THEN last' = Rejected("getShow", token, fileId, auth)
       ELSE last' = Label("getShow", "entry", token, auth.userId, fileId,
                          "handler", res.status, res.body)
    /\ UNCHANGED <<users, files, blobs, redis, clock, inflight, issued, revoked>>

(***************************************************************************)
(* GET /files: authenticate, then FilesController.getIndex over            *)
(* helpers/paginateCollection.                                             *)
(***************************************************************************)
PageSize == 20

\* the default of paginateCollection's parameter projection
NoProjection == [k \in {} |-> k]

\* { $project: projection } on one document: the fields named, and _id
project(doc, projection) ==
    [k \in (DOMAIN doc) \cap (DOMAIN projection \cup {"_id"}) |-> doc[k]]

\* aggregate([$match, $project, $skip, $limit]).toArray(); the server
\* rejects a pipeline whose $project specification is an empty document,
\* and toArray() then rejects
paginateCollection(collection, query, page, pageSize, projection) ==
    LET Match(doc) == Matches(doc, query)
        matched == SelectSeq(collection, Match)
        skip == page * pageSize
        limited == SubSeq(matched, skip + 1,
                          IF skip + pageSize < Len(matched)
                          THEN skip + pageSize ELSE Len(matched))
    IN IF DOMAIN projection = {}
       THEN [rejected |-> TRUE, docs |-> <<>>]
       ELSE [rejected |-> FALSE,
             docs |-> [i \in DOMAIN limited |-> project(limited[i], projection)]]

\* parentId is req.query.parentId: a string, or Undefined
getIndexResponse(userId, parentIdQuery, page) ==
    LET parentId == IF Falsy(parentIdQuery) THEN ROOT_FOLDER_ID
                    ELSE parentIdQuery.v IN
    IF ~IsObjectIdHex(parentId) /\ parentId # ROOT_FOLDER_ID
    THEN [status |-> 404, body |-> ErrorBody("Invalid parent id")]
    ELSE LET wanted == IF parentId = ROOT_FOLDER_ID
                       THEN Str(ROOT_FOLDER_ID) ELSE Oid(parentId)
             found == paginateCollection(
                          files, [userId |-> userId, parentId |-> wanted],
                          page, PageSize, NoProjection)
         IN IF found.rejected
            THEN [status |-> 500, body |-> ErrorBody("Internal server error")]
            ELSE [status |-> 200,
                  body |-> [list |-> [i \in DOMAIN found.docs |->
                                         Projection(found.docs[i])]]]

getIndex(token, parentIdQuery, page) ==
    /\ LET auth == authenticate(token, FALSE)
           res == getIndexResponse(auth.userId, parentIdQuery, page) IN
       IF ~auth.ok
       THEN last' = Rejected("getIndex", token, Null, auth)
       ELSE last' = LabelOf([parentId |-> parentIdQuery, page |-> page],
                            "getIndex", "entry", token, auth.userId,
                            IF Falsy(parentIdQuery) THEN Null ELSE parentIdQuery.v,
                            "handler", res.status, res.body)
    /\ UNCHANGED <<users, files, blobs, redis, clock, inflight, issued, revoked>>

(***************************************************************************)
(* PUT /files/:id/publish and /unpublish: authenticate, then putPublish or *)
(* putUnpublish, whose updateFileVisibility is three store operations.     *)
(***************************************************************************)
VisibilityOf(op) == op = "putPublish"

\* up to the first findOne of updateFileVisibility
putVisibility(op, token, fileId) ==
    /\ Cardinality(inflight) < MaxInflight
    /\ LET auth == authenticate(token, FALSE)
           file == findOwnedFile(fileId, auth.userId) IN
       IF ~auth.ok
       THEN /\ last' = Rejected(op, token, fileId, auth)
            /\ UNCHANGED inflight
       ELSE IF ~IsObjectIdHex(fileId)
       THEN /\ last' = Label(op, "entry", token, auth.userId, fileId,
                             "handler", 404, ErrorBody("Invalid file id"))
            /\ UNCHANGED inflight
       ELSE IF ~Found(file)
       THEN /\ last' = Label(op, "entry", token, auth.userId, fileId,
                             "handler", 404, ErrorBody("Not found"))
            /\ UNCHANGED inflight
       ELSE /\ inflight' = inflight \cup
                {[op |-> op, pc |-> "updateOne", userId |-> auth.userId,
                  fileId |-> fileId, isPublic |-> VisibilityOf(op)]}
            /\ last' = Label(op, "entry", token, auth.userId, fileId,
                             "handler", 0, NoBody)
    /\ UNCHANGED <<users, files, blobs, redis, clock, issued, revoked>>

applySet_Replace(doc, isPublic) == [_id |-> doc._id, isPublic |-> isPublic]

\* { $set: { isPublic } } applied to a document
applySet(doc, isPublic) == [doc EXCEPT !.isPublic = isPublic]

\* updateOne({ _id }, { $set: { isPublic } })
updateOne(r) ==
    /\ r.op \in {"putPublish", "putUnpublish"} /\ r.pc = "updateOne"
    /\ files' = [i \in DOMAIN files |->
                    IF files[i]._id = r.fileId
                    THEN applySet(files[i], r.isPublic)
                    ELSE files[i]]
    /\ inflight' = (inflight \ {r}) \cup {[r EXCEPT !.pc = "findOne"]}
    /\ last' = Label(r.op, "cont", NoToken, r.userId, r.fileId, "handler", 0, NoBody)
    /\ UNCHANGED <<users, blobs, redis, clock, issued, revoked>>

\* the final findOne({ _id }) and the response of putPublish / putUnpublish
findUpdated(r) ==
    /\ r.op \in {"putPublish", "putUnpublish"} /\ r.pc = "findOne"
    /\ LET updatedFile == findFileById(r.fileId) IN
       IF ~Found(updatedFile)
       THEN last' = Label(r.op, "cont", NoToken, r.userId, r.fileId,
                          "handler", 404, ErrorBody("Not found"))
       ELSE last' = Label(r.op, "cont", NoToken, r.userId, r.fileId,
                          "handler", 200, Projection(updatedFile))
    /\ inflight' = inflight \ {r}
    /\ UNCHANGED <<users, files, blobs, redis, clock, issued, revoked>>

(***************************************************************************)
(* GET /files/:id/data: FilesController.getFile, not behind authenticate.  *)
(***************************************************************************)
getFileResponse_NoVisibilityCheck(userId, fileId) ==
    IF ~IsObjectIdHex(fileId)
    THEN [status |-> 404, body |-> ErrorBody("Invalid file id")]
    ELSE LET file == findFileById(fileId) IN
         IF ~Found(file)
         THEN [status |-> 404, body |-> ErrorBody("Not found")]
         ELSE IF file.type = "folder"
         THEN [status |-> 400, body |-> ErrorBody("A folder doesn't have content")]
         ELSE IF file.localPath \notin blobs
         THEN [status |-> 404, body |-> ErrorBody("Not found")]
         ELSE [status |-> 200, body |-> [stream |-> file.localPath]]

getFileResponse_Forbidden(userId, fileId) ==
    IF ~IsObjectIdHex(fileId)
    THEN [status |-> 404, body |-> ErrorBody("Invalid file id")]
    ELSE LET file == findFileById(fileId) IN
         IF ~Found(file)
         THEN [status |-> 404, body |-> ErrorBody("Not found")]
         ELSE IF ~file.isPublic /\ userId # file.userId
         THEN [status |-> 403, body |-> ErrorBody("Forbidden")]
         ELSE IF file.type = "folder"
         THEN [status |-> 400, body |-> ErrorBody("A folder doesn't have content")]
         ELSE IF file.localPath \notin blobs
         THEN [status |-> 404, body |-> ErrorBody("Not found")]
         ELSE [status |-> 200, body |-> [stream |-> file.localPath]]

\* the folder check before the visibility check
getFileResponse_FolderFirst(userId, fileId) ==
    IF ~IsObjectIdHex(fileId)
    THEN [status |-> 404, body |-> ErrorBody("Invalid file id")]
    ELSE LET file == findFileById(fileId) IN
         IF ~Found(file)
         THEN [status |-> 404, body |-> ErrorBody("Not found")]
         ELSE IF file.type = "folder"
         THEN [status |-> 400, body |-> ErrorBody("A folder doesn't have content")]
         ELSE IF ~file.isPublic /\ userId # file.userId
         THEN [status |-> 404, body |-> ErrorBody("Not found")]
         ELSE IF file.localPath \notin blobs
         THEN [status |-> 404, body |-> ErrorBody("Not found")]
         ELSE [status |-> 200, body |-> [stream |-> file.localPath]]

getFileResponse(userId, fileId) ==
    IF ~IsObjectIdHex(fileId)
    THEN [status |-> 404, body |-> ErrorBody("Invalid file id")]
    ELSE LET file == findFileById(fileId) IN
         IF ~Found(file)
         THEN [status |-> 404, body |-> ErrorBody("Not found")]
         ELSE IF ~file.isPublic /\ userId # file.userId
         THEN [status |-> 404, body |-> ErrorBody("Not found")]
         ELSE IF file.type = "folder"
         THEN [status |-> 400, body |-> ErrorBody("A folder doesn't have content")]
         ELSE IF file.localPath \notin blobs
         THEN [status |-> 404, body |-> ErrorBody("Not found")]
         ELSE [status |-> 200, body |-> [stream |-> file.localPath]]

getFile(token, fileId) ==
    /\ LET userId == RedisGet(token)
           res == getFileResponse(userId, fileId) IN
       last' = Label("getFile", "entry", token, userId, fileId, "handler",
                     res.status, res.body)
    /\ UNCHANGED <<users, files, blobs, redis, clock, inflight, issued, revoked>>

(***************************************************************************)
(* Requests.                                                               *)
(***************************************************************************)
\* no X-Token header, the tokens generateToken can return, and one it never does
TokenInputs == 0..(MaxTokens + 1)

\* the ids of the documents the store can hold, one more, and a malformed id
FileIdInputs == {FileIdTable[i] : i \in 1..(MaxNodes + 1)} \cup {"metadata"}

\* parentId of a body: absent, the id of a document the store can hold, or
\* a malformed id
ParentIdOpts ==
    {EmptyBody} \cup
    {"parentId" :> Str(id) : id \in {FileIdTable[i] : i \in 1..MaxNodes} \cup {"metadata"}}

IsPublicOpts ==
    {EmptyBody, "isPublic" :> Bool("true"), "isPublic" :> Bool("false")}

FolderBody == [name |-> Str("docs"), type |-> Str("folder")]
FileBody == [name |-> Str("a.txt"), type |-> Str("file"), data |-> Str("SGVsbG8=")]
ImageBody == [name |-> Str("pic.png"), type |-> Str("image"), data |-> Str("SGVsbG8=")]

\* bodies that pass every check that does not read the store
WellFormedBodies ==
    {k @@ p @@ i : k \in {FolderBody, FileBody, ImageBody},
                   p \in ParentIdOpts, i \in IsPublicOpts}

\* bodies that fail one of those checks
MalformedBodies ==
    { [name |-> Str("my.docs"), type |-> Str("folder")],
      [name |-> Str("a.txt"), type |-> Str("file")],
      [name |-> Str("a/b"), type |-> Str("file"), data |-> Str("SGVsbG8=")],
      [name |-> Str("a.txt"), type |-> Str("file"), data |-> Str("not base64!")],
      [name |-> Str("docs"), type |-> Str("link")] }

Bodies == WellFormedBodies \cup MalformedBodies

\* a file request carrying the Base64 text of a payload of n bytes
PayloadBody(n) ==
    [name |-> Str("a.txt"), type |-> Str(FILE_TYPES.FILE),
     data |-> Str(Base64Text(toStringBase64(n)))]

\* ways in which a body can differ from a well-formed one
Defects ==
    {"extra", "noName", "numType", "strIsPublic", "badType", "noData",
     "badName", "longName", "dotName", "badDotName", "badData", "badParent", "parent1"}

WithoutKey(body, key) == [k \in DOMAIN body \ {key} |-> body[k]]

Defect(body, d) ==
    CASE d = "extra" -> ("owner" :> Str("u01")) @@ body
      [] d = "noName" -> WithoutKey(body, "name")
      [] d = "numType" -> ("type" :> Num("1")) @@ body
      [] d = "strIsPublic" -> ("isPublic" :> Str("yes")) @@ body
      [] d = "badType" -> ("type" :> Str("link")) @@ body
      [] d = "noData" -> WithoutKey(body, "data")
      [] d = "badName" -> ("name" :> Str("a/b")) @@ body
      [] d = "longName" -> ("name" :> Str(LongName)) @@ body
      [] d = "dotName" -> ("name" :> Str("my.docs")) @@ body
      [] d = "badDotName" -> ("name" :> Str("a/b.c")) @@ body
      [] d = "badData" -> ("data" :> Str("not base64!")) @@ body
      [] d = "badParent" -> ("parentId" :> Str("metadata")) @@ body
      [] d = "parent1" -> ("parentId" :> Str(FileIdTable[1])) @@ body

\* a folder body and a file body with no, one or two defects
DefectBodies ==
    {FolderBody, FileBody}
    \cup {Defect(b, d) : b \in {FolderBody, FileBody}, d \in Defects}
    \cup {Defect(Defect(b, d), e) :
             b \in {FolderBody, FileBody}, d \in Defects, e \in Defects}

\* requests to POST /files: any body with a token that resolves, one body
\* with the others
PostUploadInputs ==
    (Tokens \X Bodies) \cup ((TokenInputs \ Tokens) \X {FolderBody})

ParentIdQueries == {Undefined} \cup {Str(id) : id \in FileIdInputs}
PageInputs == {0, 1}

(***************************************************************************)
(* A state the service reaches by two registrations and two logins: both   *)
(* users hold a live token.                                                *)
(***************************************************************************)
\* the state after two users have registered
InitRegistered ==
    /\ users = << [_id |-> "u01", email |-> "bob@dylan.com",
                   password |-> hashPasswordSha1("toto1234!")],
                  [_id |-> "u02", email |-> "amy@dylan.com",
                   password |-> hashPasswordSha1("Passw0rd!")] >>
    /\ files = <<>>
    /\ blobs = {}
    /\ redis = [k \in {} |-> k]
    /\ clock = 0
    /\ inflight = {}
    /\ issued = [k \in {} |-> k]
    /\ revoked = {}
    /\ last = Label("postNew", "cont", NoToken, Null, Null, "handler", 201,
                    [id |-> "u02", email |-> "amy@dylan.com"])

InitSignedIn ==
    /\ users = << [_id |-> "u01", email |-> "bob@dylan.com",
                   password |-> hashPasswordSha1("toto1234!")],
                  [_id |-> "u02", email |-> "amy@dylan.com",
                   password |-> hashPasswordSha1("Passw0rd!")] >>
    /\ files = <<>>
    /\ blobs = {}
    /\ redis = (1 :> [userId |-> "u01", expireAt |-> TokenTTL])
                 @@ (2 :> [userId |-> "u02", expireAt |-> TokenTTL])
    /\ clock = 0
    /\ inflight = {}
    /\ issued = (1 :> [userId |-> "u01", at |-> 0])
                  @@ (2 :> [userId |-> "u02", at |-> 0])
    /\ revoked = {}
    /\ last = LabelOf([scheme |-> "Basic", email |-> "amy@dylan.com",
                        password |-> "Passw0rd!"],
                       "getConnect", "entry", NoToken, "u02", Null, "handler",
                       200, [token |-> 2])

(***************************************************************************)
(* Next-state relations.                                                   *)
(***************************************************************************)
SessionNext ==
    \/ Tick
    \/ \E e \in Emails, p \in Passwords : postNewCheck(e, p)
    \/ \E r \in inflight : createUser(r)
    \/ \E h \in AuthHeaders : getConnect(h)
    \/ \E t \in TokenInputs : getDisconnect(t)
    \/ \E t \in TokenInputs : getMe(t)

CreateNext ==
    \/ \E in \in PostUploadInputs : postUpload(in[1], in[2])
    \/ \E r \in inflight, dbOk \in BOOLEAN : createFolder(r, dbOk)
    \/ \E r \in inflight, fsOk \in BOOLEAN : saveFile(r, fsOk)
    \/ \E r \in inflight, dbOk \in BOOLEAN : createFile(r, dbOk)

VisibilityOver(tokens, ids) ==
    \/ \E op \in {"putPublish", "putUnpublish"}, t \in tokens,
          id \in ids : putVisibility(op, t, id)
    \/ \E r \in inflight : updateOne(r)
    \/ \E r \in inflight : findUpdated(r)

VisibilityNext == VisibilityOver(TokenInputs, FileIdInputs)

ReadNext ==
    \/ \E t \in TokenInputs, id \in FileIdInputs : getShow(t, id)
    \/ \E t \in TokenInputs, q \in ParentIdQueries, p \in PageInputs :
          getIndex(t, q, p)
    \/ \E t \in TokenInputs, id \in FileIdInputs : getFile(t, id)

\* the whole service
Next == SessionNext \/ CreateNext \/ VisibilityNext \/ ReadNext

Spec == Init /\ [][Next]_vars

SpecSession == Init /\ [][SessionNext]_vars

\* signing in and out, from two registered users
LoginNext ==
    \/ Tick
    \/ \E h \in AuthHeaders : getConnect(h)
    \/ \E t \in TokenInputs : getDisconnect(t)
    \/ \E t \in TokenInputs : getMe(t)

SpecLogin == InitRegistered /\ [][LoginNext]_vars

\* a few of the well-formed bodies
LeanBodies ==
    {k @@ p @@ i :
        k \in {FolderBody, FileBody, ImageBody},
        p \in {EmptyBody, "parentId" :> Str(FileIdTable[1])},
        i \in {EmptyBody, "isPublic" :> Bool("true")}}

LeanCreateNext ==
    \/ \E t \in Tokens, b \in LeanBodies : postUpload(t, b)
    \/ \E r \in inflight : createFolder(r, TRUE)
    \/ \E r \in inflight : saveFile(r, TRUE)
    \/ \E r \in inflight : createFile(r, TRUE)

TreeNext == CreateNext \/ VisibilityOver(Tokens, FileIdInputs)

FileReadNext ==
    \/ LeanCreateNext
    \/ \E t \in TokenInputs, id \in FileIdInputs : getShow(t, id)
    \/ \E t \in TokenInputs, id \in FileIdInputs : getFile(t, id)

ProtectedNext ==
    \/ \E t \in TokenInputs, b \in {FolderBody, FileBody} : postUpload(t, b)
    \/ \E r \in inflight : createFolder(r, TRUE)
    \/ \E r \in inflight : saveFile(r, TRUE)
    \/ \E r \in inflight : createFile(r, TRUE)
    \/ VisibilityOver(TokenInputs, {FileIdTable[1]})
    \/ \E t \in TokenInputs : getDisconnect(t)
    \/ \E t \in TokenInputs : getMe(t)
    \/ \E t \in TokenInputs, id \in {FileIdTable[1], "metadata"} : getShow(t, id)
    \/ \E t \in TokenInputs, q \in {Undefined, Str(FileIdTable[1])} :
          getIndex(t, q, 0)

\* creating, publishing and listing
ListNext ==
    \/ LeanCreateNext
    \/ VisibilityOver(Tokens, {FileIdTable[1]})
    \/ \E t \in Tokens, q \in ParentIdQueries, p \in PageInputs :
          getIndex(t, q, p)

\* create requests with defective bodies
ValidateNext ==
    \/ \E t \in Tokens, b \in DefectBodies : postUpload(t, b)
    \/ \E r \in inflight : createFolder(r, TRUE)
    \/ \E r \in inflight : saveFile(r, TRUE)
    \/ \E r \in inflight : createFile(r, TRUE)

\* file requests with payloads of every size
PayloadNext ==
    \/ \E t \in Tokens, n \in PayloadLengths : postUpload(t, PayloadBody(n))
    \/ \E r \in inflight : saveFile(r, TRUE)
    \/ \E r \in inflight : createFile(r, TRUE)

SpecCreate == InitSignedIn /\ [][CreateNext]_vars

SpecPayload == InitSignedIn /\ [][PayloadNext]_vars

SpecValidate == InitSignedIn /\ [][ValidateNext]_vars

SpecList == InitSignedIn /\ [][ListNext]_vars

SpecTree == InitSignedIn /\ [][TreeNext]_vars

SpecRead == InitSignedIn /\ [][FileReadNext]_vars

SpecProtected == InitSignedIn /\ [][ProtectedNext]_vars

(***************************************************************************)
(* Properties.                                                             *)
(***************************************************************************)
Nodes == Range(files)

PayloadKinds == {FILE_TYPES.FILE, FILE_TYPES.IMAGE}

C2_ParentIsRootOrFolder ==
    \A n \in Nodes :
        \/ n.parentId = Str(ROOT_FOLDER_ID)
        \/ /\ n.parentId.t = "ObjectId"
           /\ \E m \in Nodes : m._id = n.parentId.v /\ m.type = FILE_TYPES.FOLDER

\* a node was just stored under a stored folder
C2_Witness ==
    /\ last.op = "postUpload" /\ last.status = 201
    /\ \E n \in Nodes :
          /\ n._id = last.fileId
          /\ n.parentId # Str(ROOT_FOLDER_ID)
          /\ \E m \in Nodes : Oid(m._id) = n.parentId /\ m.type = FILE_TYPES.FOLDER

ProtectedOps ==
    {"getDisconnect", "getMe", "postUpload", "getShow", "getIndex",
     "putPublish", "putUnpublish"}

\* C3: a request to a protected operation whose token is missing or resolves
\* to no user is answered by authenticate with an authentication failure,
\* before the handler runs, and it changes no store and starts no work.
C3_RejectedBeforeHandler ==
    [][(/\ last'.phase = "entry"
        /\ last'.op \in ProtectedOps
        /\ (last'.token = NoToken \/ RedisGet(last'.token) = Null))
       => (/\ last'.by = "authenticate"
           /\ last'.status \in {401, 404}
           /\ last'.body \in {ErrorBody("Unauthorized"), ErrorBody("Not found")}
           /\ UNCHANGED <<users, files, blobs, redis, inflight>>)]_vars

\* a publish request carrying a revoked token, for a stored node, was rejected
C3_Witness ==
    /\ last.op = "putPublish" /\ last.phase = "entry"
    /\ last.token \in revoked
    /\ last.by = "authenticate" /\ last.status = 401
    /\ \E n \in Nodes : n._id = last.fileId

Age(t) == clock - issued[t].at

\* C4: a token issued to user u resolves to u while it is at most 24 hours
\* old and not revoked, and to nothing afterwards; its expiry stays at
\* creation time plus 24 hours however often it is resolved, and users/me
\* accepts it exactly while it resolves.
C4_TokenLifetime ==
    /\ \A t \in DOMAIN issued :
          /\ RedisGet(t) = IF t \notin revoked /\ Age(t) <= TokenTTL
                           THEN issued[t].userId ELSE Null
          /\ t \in DOMAIN redis => redis[t].expireAt = issued[t].at + TokenTTL
    /\ (last.op = "getMe" /\ last.token \in DOMAIN issued)
          => (last.by = "handler" <=>
                 (last.token \notin revoked /\ Age(last.token) <= TokenTTL))

\* a token never revoked is refused by users/me once it is older than 24
\* hours, while a younger token of the same store still resolves
C4_Witness ==
    /\ last.op = "getMe" /\ last.by = "authenticate" /\ last.status = 401
    /\ last.token \in DOMAIN issued \ revoked
    /\ Age(last.token) > TokenTTL
    /\ \E t \in DOMAIN issued : Age(t) > 0 /\ Age(t) <= TokenTTL
                                /\ RedisGet(t) = issued[t].userId

\* C5 as stated: every session teardown succeeds with no body, whatever the
\* token it carries.
C5_TeardownAlwaysSucceeds ==
    last.op = "getDisconnect" => (last.status = 204 /\ last.body = NoBody)

\* C5: a session teardown whose token resolves answers 204 with no body and
\* removes the binding; one whose token is missing, already revoked, expired
\* or never bound is answered 401 by authenticate and changes nothing.
C5_TeardownNeedsLiveToken ==
    [][last'.op = "getDisconnect"
       => IF RedisGet(last'.token) # Null
          THEN /\ last'.by = "handler"
               /\ last'.status = 204 /\ last'.body = NoBody
               /\ last'.token \notin DOMAIN redis'
               /\ \A t \in DOMAIN redis \ {last'.token} :
                     t \in DOMAIN redis' /\ redis'[t] = redis[t]
          ELSE /\ last'.by = "authenticate"
               /\ last'.status = 401 /\ last'.body = ErrorBody("Unauthorized")
               /\ redis' = redis]_vars

\* the second teardown of a token was refused
C5_Witness ==
    /\ last.op = "getDisconnect" /\ last.token \in revoked
    /\ last.by = "authenticate" /\ last.status = 401

\* C6: signing in with a registered email and a password whose hash is not
\* the stored one answers 401 Unauthorized, and binds and issues no token.
C6_WrongPasswordRejected ==
    [][(/\ last'.op = "getConnect"
        /\ last'.arg.scheme = "Basic"
        /\ Found(findUserByEmail(last'.arg.email))
        /\ hashPasswordSha1(last'.arg.password)
              # findUserByEmail(last'.arg.email).password)
       => (/\ last'.status = 401 /\ last'.body = ErrorBody("Unauthorized")
           /\ UNCHANGED <<redis, issued>>)]_vars

\* a wrong password for a registered email was refused while that user
\* holds a session
C6_Witness ==
    /\ last.op = "getConnect" /\ last.status = 401
    /\ last.arg.scheme = "Basic"
    /\ LET user == findUserByEmail(last.arg.email) IN
          /\ Found(user)
          /\ hashPasswordSha1(last.arg.password) # user.password
          /\ \E t \in DOMAIN redis : redis[t].userId = user._id

NodeWithId(id) == {n \in Nodes : n._id = id}

\* well-formed ids that match no stored node
AbsentIds == {id \in Range(FileIdTable) : NodeWithId(id) = {}}

NotFound == [status |-> 404, body |-> ErrorBody("Not found")]

Response(label) == [status |-> label.status, body |-> label.body]

\* the caller neither owns the node nor may see it
Hidden(n, userId) == ~n.isPublic /\ userId # n.userId

\* C7: get-payload of a file or image node streams the payload when the node
\* is public, with or without a token, and when the token resolves to the
\* owner; when the node is not public and the caller has no token, a token
\* that does not resolve, or another user's token, the answer is not-found.
C7_PayloadVisibility ==
    (last.op = "getFile")
    => /\ last.by = "handler"
       /\ last.userId = RedisGet(last.token)
       /\ \A n \in NodeWithId(last.fileId) :
             n.type \in PayloadKinds
             => IF n.isPublic \/ last.userId = n.userId
                THEN Response(last) = [status |-> 200,
                                       body |-> [stream |-> n.localPath]]
                ELSE Response(last) = NotFound

\* a public file was streamed to a caller without a token while the store
\* also holds a node that is not public
C7_Witness ==
    /\ last.op = "getFile" /\ last.token = NoToken /\ last.status = 200
    /\ \E n \in NodeWithId(last.fileId) : n.isPublic /\ n.type \in PayloadKinds
    /\ \E n \in Nodes : ~n.isPublic

\* C8: for every caller, token or none, get-payload answers a node that is
\* not public and not the caller's exactly as it answers a well-formed id
\* that matches no node, whatever the kind of the node.
C8_HiddenLooksAbsent ==
    /\ \A t \in TokenInputs, n \in Nodes, a \in AbsentIds :
          Hidden(n, RedisGet(t))
          => getFileResponse(RedisGet(t), n._id) = getFileResponse(RedisGet(t), a)
    /\ (last.op = "getFile")
          => \A n \in NodeWithId(last.fileId), a \in AbsentIds :
                Hidden(n, last.userId)
                => Response(last) = getFileResponse(last.userId, a)

\* another user's token asked for the payload of a folder that is not public
C8_Witness ==
    /\ last.op = "getFile" /\ last.userId # Null
    /\ \E n \in NodeWithId(last.fileId) :
          Hidden(n, last.userId) /\ n.type = FILE_TYPES.FOLDER
    /\ AbsentIds # {}
    /\ Response(last) = NotFound

\* C9: get-node answers with the projection of the node only when a node
\* with that id is stored and owned by the authenticated caller; for an id
\* that matches no node and for a node of another user, public or not, it
\* answers not-found.
C9_GetNodeOwnerOnly ==
    (last.op = "getShow" /\ last.by = "handler")
    => LET owned == {n \in NodeWithId(last.fileId) : n.userId = last.userId} IN
       /\ last.userId = RedisGet(last.token)
       /\ IF owned # {}
          THEN last.status = 200 /\ \E n \in owned : last.body = Projection(n)
          ELSE /\ last.status = 404
               /\ IsObjectIdHex(last.fileId) => last.body = ErrorBody("Not found")

\* get-node on a public node of another user answered not-found
C9_Witness ==
    /\ last.op = "getShow" /\ last.by = "handler"
    /\ \E n \in NodeWithId(last.fileId) : n.isPublic /\ n.userId # last.userId
    /\ Response(last) = NotFound

\* C10: a publish or unpublish request for a node that is not the
\* authenticated caller's answers not-found, starts no update and leaves
\* every stored node as it is.
C10_VisibilityOwnerOnly ==
    [][(/\ last'.op \in {"putPublish", "putUnpublish"}
        /\ last'.phase = "entry" /\ last'.by = "handler"
        /\ NodeWithId(last'.fileId) # {}
        /\ \A n \in NodeWithId(last'.fileId) : n.userId # last'.userId)
       => (/\ Response(last') = NotFound
           /\ UNCHANGED <<files, inflight>>)]_vars

\* a publish request for another user's node that is not public answered
\* not-found
C10_Witness ==
    /\ last.op = "putPublish" /\ last.phase = "entry" /\ last.by = "handler"
    /\ \E n \in NodeWithId(last.fileId) : n.userId # last.userId /\ ~n.isPublic
    /\ Response(last) = NotFound

\* C11: a stored node stays stored, at its place, with the _id, userId,
\* name, type, parentId and localPath it was inserted with; a step changes
\* at most isPublic, and only as the update of a publish or unpublish
\* request on that node authenticated as the node's owner.
C11_NodesKeepTheirFields ==
    [][/\ Len(files') >= Len(files)
       /\ \A i \in DOMAIN files :
             /\ DOMAIN files'[i] = DOMAIN files[i]
             /\ \A k \in DOMAIN files[i] \ {"isPublic"} : files'[i][k] = files[i][k]
             /\ files'[i].isPublic # files[i].isPublic
                   => /\ last'.op \in {"putPublish", "putUnpublish"}
                      /\ last'.fileId = files[i]._id
                      /\ last'.userId = files[i].userId
                      /\ files'[i].isPublic = VisibilityOf(last'.op)]_vars

\* the update of the owner's unpublish request was applied to a file that
\* was stored as public, next to another stored node
C11_Witness ==
    /\ last.op = "putUnpublish" /\ last.phase = "cont" /\ last.status = 0
    /\ Len(files) > 1
    /\ \E n \in NodeWithId(last.fileId) :
          /\ n.type \in PayloadKinds /\ "localPath" \in DOMAIN n
          /\ n.userId = last.userId /\ ~n.isPublic

\* the parent a list request names: the root for a missing or empty one
ListedParent(q) ==
    IF Falsy(q) \/ q.v = ROOT_FOLDER_ID THEN Str(ROOT_FOLDER_ID) ELSE Oid(q.v)

\* the projections of the caller's nodes under a parent, in insertion order
ListedUnder(userId, parent) ==
    LET Mine(f) == f.userId = userId /\ f.parentId = parent
        mine == SelectSeq(files, Mine)
    IN [i \in DOMAIN mine |-> Projection(mine[i])]

\* positions page * 20 to page * 20 + 19 of a sequence, counted from 0
PageOf(seq, page) ==
    LET first == page * 20 + 1
        end == IF page * 20 + 20 < Len(seq) THEN page * 20 + 20 ELSE Len(seq)
    IN SubSeq(seq, first, end)

\* C12: a list request of an authenticated caller for the root or for a
\* well-formed parent id answers 200 with the caller's nodes under that
\* parent, in insertion order, positions page * 20 to page * 20 + 19: at
\* most 20 nodes, and an empty sequence, not an error, for a page past the end.
C12_ListReturnsPage ==
    (/\ last.op = "getIndex" /\ last.by = "handler"
     /\ (Falsy(last.arg.parentId) \/ IsObjectIdHex(last.arg.parentId.v)))
    => /\ last.status = 200
       /\ last.body =
             [list |-> PageOf(ListedUnder(last.userId,
                                          ListedParent(last.arg.parentId)),
                              last.arg.page)]
       /\ Len(last.body.list) <= 20

UserIds == {u._id : u \in Range(users)}

\* the list requests that name the root or a well-formed parent id
ListQueries == {q \in ParentIdQueries : Falsy(q) \/ IsObjectIdHex(q.v)}

IdsOf(list) == [i \in DOMAIN list |-> list[i].id]

\* C13: a list request answers with a sequence of nodes, and over a step
\* that inserts no node the same request (caller, parent, page) answers
\* with the same nodes in the same order, only their isPublic may differ;
\* a list request itself changes no store.
C13_ListStable ==
    [][/\ \A u \in UserIds, q \in ListQueries, p \in PageInputs :
             LET before == getIndexResponse(u, q, p)
                 after == getIndexResponse(u, q, p)'
             IN /\ before.status = 200
                /\ after.status = 200
                /\ Len(files') = Len(files)
                      => IdsOf(after.body.list) = IdsOf(before.body.list)
       /\ last'.op = "getIndex"
             => UNCHANGED <<users, files, blobs, redis, inflight>>]_vars

\* C14: the 201 answer of a create request is exactly the projection id,
\* userId, name, type, isPublic, parentId of the node just stored, as
\* get-node reports it: the root parent as "0", and no localPath.
C14_CreatedIsProjection ==
    (last.op = "postUpload" /\ last.status = 201)
    => /\ NodeWithId(last.fileId) # {}
       /\ \A n \in NodeWithId(last.fileId) :
             /\ last.body = Projection(n)
             /\ last.body = getShowResponse(n.userId, n._id).body
       /\ "localPath" \notin DOMAIN last.body

\* the isPublic a create request asks for: its field when present, else false
RequestedIsPublic(body) ==
    IF "isPublic" \in DOMAIN body THEN body.isPublic = Bool("true") ELSE FALSE

\* C15: the node stored for a create request has the isPublic of the
\* request: true for true, false for false, and false when the field is
\* absent; a root-level request is stored with parentId "0".
C15_IsPublicAsRequested ==
    (last.op = "postUpload" /\ last.status = 201)
    => \A n \in NodeWithId(last.fileId) :
          /\ n.isPublic = RequestedIsPublic(last.arg)
          /\ "parentId" \notin DOMAIN last.arg => n.parentId = Str(ROOT_FOLDER_ID)

\* what a create request carries, read as the validation steps state them
HasString(body, k) == k \in DOMAIN body /\ body[k].t = "string"

IsKind(body, kinds) == HasString(body, "type") /\ body.type.v \in kinds

NonFolderKind(body) == ~IsKind(body, {FILE_TYPES.FOLDER})

UnexpectedFields(body) == DOMAIN body \ AllowedAttributes # {}

NameOrKindNotString(body) ==
    ~HasString(body, "name") \/ ~HasString(body, "type")

IsPublicNotBoolean(body) ==
    "isPublic" \in DOMAIN body /\ body.isPublic.t # "boolean"

KindNotRecognized(body) ==
    ~IsKind(body, PayloadKinds \cup {FILE_TYPES.FOLDER})

PayloadMissing(body) == NonFolderKind(body) /\ "data" \notin DOMAIN body

NameRuleBroken(body) ==
    /\ HasString(body, "name")
    /\ \/ StrChars(body.name.v) \cap INVALID_FILE_NAME_CHARACTERS # {}
       \/ StrLen(body.name.v) > MAX_NAME_FILE_LENGTH

FolderNameHasDot(body) ==
    /\ IsKind(body, {FILE_TYPES.FOLDER})
    /\ HasString(body, "name")
    /\ "." \in StrChars(body.name.v)

PayloadNotBase64(body) ==
    /\ NonFolderKind(body)
    /\ "data" \in DOMAIN body
    /\ ~(body.data.t = "string" /\ Base64RegexTest(body.data.v))

ParentNotAFolder(body) ==
    /\ "parentId" \in DOMAIN body
    /\ body.parentId # Str(ROOT_FOLDER_ID)
    /\ \A n \in NodeWithId(body.parentId.v) : n.type # FILE_TYPES.FOLDER

RequiredReasons ==
    {"Missing name", "Missing type", "name attr must be a string value",
     "type attr must be a string value"}

IsPublicReasons == {"isPublic attr must be a boolean value"}

NameReasons ==
    {"Name cannot be empty", "Name contains invalid characters",
     "Name exceeds maximum length of 255 characters"}

PayloadReasons == {"Data cannot be empty", "Invalid Base64 string"}

ParentReasons ==
    {"Invalid parent id", "Parent not found", "Parent is not a folder"}

\* the eight steps as the claim numbers them: which are violated, and the
\* reasons that belong to each
StepsAsStated(body) ==
    << UnexpectedFields(body),
       NameOrKindNotString(body) \/ IsPublicNotBoolean(body),
       KindNotRecognized(body),
       PayloadMissing(body),
       NameRuleBroken(body),
       FolderNameHasDot(body),
       PayloadNotBase64(body),
       ParentNotAFolder(body) >>

ReasonsAsStated ==
    << {"Unexpected attribute(s)"},
       RequiredReasons \cup IsPublicReasons,
       {"Invalid file type"},
       {"Missing data"},
       NameReasons,
       {"Folder name should not contain a dot"},
       PayloadReasons,
       ParentReasons >>

\* the same steps with the isPublic check after the payload-present check
StepsInOrder(body) ==
    << UnexpectedFields(body),
       NameOrKindNotString(body),
       KindNotRecognized(body),
       PayloadMissing(body),
       IsPublicNotBoolean(body),
       NameRuleBroken(body),
       FolderNameHasDot(body),
       PayloadNotBase64(body),
       ParentNotAFolder(body) >>

ReasonsInOrder ==
    << {"Unexpected attribute(s)"},
       RequiredReasons,
       {"Invalid file type"},
       {"Missing data"},
       IsPublicReasons,
       NameReasons,
       {"Folder name should not contain a dot"},
       PayloadReasons,
       ParentReasons >>

Violated(steps) == {k \in DOMAIN steps : steps[k]}

Lowest(ks) == CHOOSE k \in ks : \A j \in ks : k <= j

\* a create request got past authentication
Validated == last.op = "postUpload" /\ last.phase = "entry" /\ last.by # "authenticate"

\* C16 as stated: with the isPublic type check in step 2, a create request
\* that violates several steps is rejected with a reason of its
\* lowest-numbered violated step, and one that violates none is accepted.
C16_OrderAsStated ==
    Validated
    => LET ks == Violated(StepsAsStated(last.arg)) IN
       IF ks = {} THEN last.by = "handler"
       ELSE /\ last.by = "validate" /\ last.status = 400
            /\ last.body.error \in ReasonsAsStated[Lowest(ks)]

\* C16: the validator checks 1) unexpected fields, 2) name and kind present
\* and strings, 3) kind recognized, 4) payload present for non-folder kinds,
\* then isPublic boolean, 5) name rules, 6) folder-dot rule, 7) payload
\* encoding, 8) parent resolution; a request that violates several steps is
\* rejected with a reason of the first violated one in this order, and a
\* request that violates none is accepted.
C16_OrderInCode ==
    Validated
    => LET ks == Violated(StepsInOrder(last.arg)) IN
       IF ks = {} THEN last.by = "handler"
       ELSE /\ last.by = "validate" /\ last.status = 400
            /\ last.body.error \in ReasonsInOrder[Lowest(ks)]

\* a request with a non-boolean isPublic and an unrecognized kind is rejected
\* for its kind
C16_Witness ==
    /\ Validated
    /\ IsPublicNotBoolean(last.arg)
    /\ KindNotRecognized(last.arg)
    /\ ~NameOrKindNotString(last.arg)
    /\ last.by = "validate"
    /\ last.body = ErrorBody("Invalid file type")

DotReason == "Folder name should not contain a dot"

\* a folder request whose name holds a '.' passed authentication in this step
DotFolderRequest == Validated' /\ FolderNameHasDot(last'.arg)

\* C17 as stated: every folder request whose name holds a '.' is rejected
\* with the folder-dot reason whatever its other fields are, and stores
\* nothing.
C17_DotReasonAlways ==
    [][DotFolderRequest
       => /\ last'.by = "validate" /\ last'.status = 400
          /\ last'.body = ErrorBody(DotReason)
          /\ UNCHANGED <<files, blobs, inflight>>]_vars

\* C17: every folder request whose name holds a '.' is rejected with 400
\* and stores nothing, whatever its other fields are; the reason is the
\* folder-dot reason exactly when the request has no unexpected field, no
\* non-boolean isPublic and a name that passes the name rules, whatever its
\* payload and parentId are.
C17_DotFolderRejected ==
    [][DotFolderRequest
       => /\ last'.by = "validate" /\ last'.status = 400
          /\ UNCHANGED <<files, blobs, inflight>>
          /\ last'.body = ErrorBody(DotReason)
                <=> ~(\/ UnexpectedFields(last'.arg)
                      \/ IsPublicNotBoolean(last'.arg)
                      \/ NameRuleBroken(last'.arg))]_vars

\* a folder request with a '.' in its name and a parentId that resolves to
\* no folder is rejected for the dot
C17_Witness ==
    /\ Validated
    /\ FolderNameHasDot(last.arg)
    /\ ParentNotAFolder(last.arg)
    /\ last.by = "validate"
    /\ last.body = ErrorBody(DotReason)

\* the stored file and image nodes a create request names as its parent
NonFolderParents(body) ==
    IF "parentId" \in DOMAIN body
    THEN {n \in NodeWithId(body.parentId.v) : n.type \in PayloadKinds}
    ELSE {}

\* C18: a create request that is valid but for its parentId, which is the
\* id of a stored file or image node, is rejected with 'Parent is not a
\* folder', whoever owns that node, and stores nothing.
C18_ParentIsNotAFolder ==
    [][(/\ Validated'
        /\ last'.arg \in WellFormedBodies
        /\ NonFolderParents(last'.arg) # {})
       => /\ last'.by = "validate" /\ last'.status = 400
          /\ last'.body = ErrorBody("Parent is not a folder")
          /\ UNCHANGED <<files, blobs, inflight>>]_vars

\* a user's request under another user's file node was rejected
C18_Witness ==
    /\ Validated
    /\ last.arg \in WellFormedBodies
    /\ \E n \in NonFolderParents(last.arg) : n.userId # last.userId
    /\ last.body = ErrorBody("Parent is not a folder")

\* the blobs no stored node and no pending request refers to
OrphanBlobs ==
    {b \in blobs :
        /\ \A n \in Nodes : "localPath" \in DOMAIN n => n.localPath # b
        /\ \A r \in inflight : "localPath" \in DOMAIN r.fileData
                                  => r.fileData.localPath # b}

\* C19: when a file or image request whose blob is written ends without a
\* node being inserted, the caller gets 500 'Error saving the file', no node
\* refers to the request's blob, and the blob stays in the blob store.
C19_InsertFailureLeavesBlob ==
    [][\A r \in inflight :
          (/\ r.pc = "createFile"
           /\ r \notin inflight'
           /\ Len(files') = Len(files))
          => /\ r.fileData.type \in PayloadKinds
             /\ last'.op = "postUpload"
             /\ last'.status = 500
             /\ last'.body = ErrorBody("Error saving the file")
             /\ files' = files
             /\ \A n \in Range(files') :
                   "localPath" \in DOMAIN n => n.localPath # r.fileData.localPath
             /\ r.fileData.localPath \in blobs'
             /\ blobs' = blobs]_vars

\* a create request was answered 500 and its blob is left with no node
C19_Witness ==
    /\ last.op = "postUpload" /\ last.phase = "cont"
    /\ last.status = 500
    /\ inflight = {}
    /\ files = << >>
    /\ Cardinality(blobs) = 1
    /\ OrphanBlobs = blobs

\* C20: no two user records have the same email, also when two
\* registrations of one email both check before either inserts.
C20_UniqueEmails ==
    \A i, j \in DOMAIN users : users[i].email = users[j].email => i = j

\* the payload whose Base64 text a request carries
PayloadLengthOf(body) ==
    CHOOSE n \in PayloadLengths : PayloadBody(n) = body

TwoGiB == Bytes(2, 0)

\* C21: a file request carrying the Base64 text of a payload passes
\* validation when the payload has at most 2 GiB, every size from 0 on, and
\* is rejected when it has more.
C21_PayloadSizeLimit ==
    (Validated /\ \E n \in PayloadLengths : PayloadBody(n) = last.arg)
    => (last.by = "handler" <=> ~BytesGt(PayloadLengthOf(last.arg), TwoGiB))

\* the naming rules of a node of the given kind
NameIsValid(name, type) ==
    /\ name # ""
    /\ StrLen(name) <= MAX_NAME_FILE_LENGTH
    /\ StrChars(name) \cap INVALID_FILE_NAME_CHARACTERS = {}
    /\ type = FILE_TYPES.FOLDER => "." \notin StrChars(name)

\* C22: the name of every stored node, and of every create request on its
\* way to the insert, is not empty, has at most 255 characters, none of
\* < > : " / \ | ? * and, for a folder, no '.'.
C22_StoredNamesAreValid ==
    /\ \A n \in Nodes : NameIsValid(n.name, n.type)
    /\ \A r \in inflight :
          r.op = "postUpload" => NameIsValid(r.fileData.name, r.fileData.type)

\* a node is stored and the last request was rejected for its name
C22_Witness ==
    /\ Nodes # {}
    /\ Validated
    /\ last.by = "validate"
    /\ last.body.error \in NameReasons \cup {DotReason}

\* C23: the step that inserts a file or image node finds the blob its
\* localPath names already written and writes none itself; a request whose
\* blob write fails ends there, with no node inserted; blobs are never
\* removed, so every stored file or image node names a written blob.
C23_BlobBeforeNode ==
    [][/\ \A i \in DOMAIN files' \ DOMAIN files :
             files'[i].type \in PayloadKinds
             => /\ "localPath" \in DOMAIN files'[i]
                /\ files'[i].localPath \in blobs
                /\ blobs' = blobs
       /\ \A r \in inflight :
             (r.pc = "saveFile" /\ r \notin inflight' /\ blobs' = blobs)
             => /\ files' = files
                /\ inflight' = inflight \ {r}
                /\ last'.status = 500
       /\ blobs \subseteq blobs'
       /\ \A n \in Range(files') :
             n.type \in PayloadKinds => n.localPath \in blobs']_vars

\* an image or file node was just inserted, and its blob is in the store
C23_Witness ==
    /\ last.op = "postUpload" /\ last.phase = "cont" /\ last.status = 201
    /\ \E n \in NodeWithId(last.fileId) :
          n.type \in PayloadKinds /\ n.localPath \in blobs

\* how a parentId other than the sentinel resolves
ParentMode(id) ==
    IF ~IsObjectIdHex(id) THEN "malformed"
    ELSE IF NodeWithId(id) = {} THEN "missing"
    ELSE IF \E n \in NodeWithId(id) : n.type # FILE_TYPES.FOLDER THEN "not a folder"
    ELSE "folder"

ParentIdInputs == Range(FileIdTable) \cup {"metadata"}

\* C24: the reason a create request is given for its parentId is given to
\* no parentId that fails in another way: malformed ids, well-formed ids of
\* no node and ids of file or image nodes get three different reasons.
C24_DistinctParentReasons ==
    (/\ Validated /\ last.by = "validate"
     /\ last.body.error \in ParentReasons
     /\ "parentId" \in DOMAIN last.arg)
    => \A id \in ParentIdInputs :
          ParentMode(id) \notin {"folder", ParentMode(last.arg.parentId.v)}
          => validateParentId(Str(id)).err # last.body.error

\* C25: a publish request answered with a node reports isPublic true and an
\* unpublish request reports isPublic false, also when requests of the same
\* owner on the same node interleave.
C25_ReturnedVisibility ==
    (last.op \in {"putPublish", "putUnpublish"} /\ last.status = 200)
    => last.body.isPublic = VisibilityOf(last.op)

NoContent == [status |-> 400, body |-> ErrorBody("A folder doesn't have content")]

\* C26: get-payload of a folder node answers 400 "A folder doesn't have
\* content" when the folder is public or the caller's, and not-found when
\* it is neither; in both cases nothing is streamed and no store changes.
C26_FolderHasNoContent ==
    [][last'.op = "getFile"
       => /\ \A n \in NodeWithId(last'.fileId) :
                n.type = FILE_TYPES.FOLDER
                => /\ Response(last') =
                        IF Hidden(n, RedisGet(last'.token)) THEN NotFound
                        ELSE NoContent
                   /\ "stream" \notin DOMAIN last'.body
          /\ UNCHANGED <<users, files, blobs, redis, inflight>>]_vars

\* a caller without a token asked for the payload of a public folder while
\* the store also holds a folder that is not public
C26_Witness ==
    /\ last.op = "getFile" /\ last.token = NoToken
    /\ \E n \in NodeWithId(last.fileId) : n.type = FILE_TYPES.FOLDER /\ n.isPublic
    /\ \E n \in Nodes : n.type = FILE_TYPES.FOLDER /\ ~n.isPublic
    /\ Response(last) = NoContent

\* C27: the step that ends a create request which passed validation answers
\* the caller: 201 when a node was inserted, and 500 when the blob write or
\* the insert failed, for a folder as for a file or image.
C27_EveryCreateAnswered ==
    [][\A r \in inflight :
          (r.op = "postUpload" /\ inflight' = inflight \ {r})
          => /\ last'.by = "handler"
             /\ last'.status = IF Len(files') > Len(files) THEN 201 ELSE 500]_vars

\* C28: a successful logout with a token removes the binding of that token
\* and of no other: every other token, the same user's included, resolves
\* as before; a token once logged out resolves to no user in any later
\* state, and every later protected request carrying it is rejected.
C28_LogoutRevokesOnlyItsToken ==
    [][/\ (last'.op = "getDisconnect" /\ last'.status = 204)
          => /\ last'.token \in revoked'
             /\ \A t \in Tokens \ {last'.token} : RedisGet(t)' = RedisGet(t)
       /\ \A t \in revoked' : RedisGet(t)' = Null
       /\ (last'.op \in ProtectedOps /\ last'.token \in revoked)
          => /\ last'.by = "authenticate" /\ last'.status = 401
             /\ UNCHANGED <<redis, revoked>>]_vars

\* a user signed in twice and logged out with one token; the other token
\* still resolves to that user
C28_Witness ==
    /\ last.op = "getDisconnect" /\ last.status = 204
    /\ RedisGet(last.token) = Null
    /\ \E t \in Tokens \ {last.token} : RedisGet(t) = last.userId

\* C29: every stored node whose parentId is not the root sentinel has the
\* owner of its parent folder.
C29_ParentHasSameOwner ==
    \A n \in Nodes :
        n.parentId # Str(ROOT_FOLDER_ID)
        => \A m \in Nodes : Oid(m._id) = n.parentId => m.userId = n.userId

\* C30: a create request rejected by validation leaves every store as it
\* was: no blob written, no node inserted or changed, no session changed,
\* and no work started.
C30_RejectedChangesNothing ==
    [][(Validated' /\ last'.by = "validate")
       => /\ last'.status = 400
          /\ UNCHANGED <<users, files, blobs, redis, inflight, issued, revoked>>]_vars

\* a create request was rejected while a file node and its blob are stored
C30_Witness ==
    /\ Validated /\ last.by = "validate" /\ last.status = 400
    /\ \E n \in Nodes : n.type \in PayloadKinds /\ n.localPath \in blobs

====
